---------------------------- MODULE Spec2Model ----------------------------
(***************************************************************************)
(* A model of flask_restful_fieldsets (fieldset.py, fields.py).            *)
(*                                                                         *)
(* Encoding of Python values                                               *)
(*   str        a sequence of chunks; a chunk is a run of characters that  *)
(*              holds neither "." nor ",", or it is the one character "."  *)
(*              or ","  ("owner.email" is <<"owner", ".", "email">>); the  *)
(*              "_" that starts a private name is a chunk of its own.      *)
(*              In the parser model every chunk is a single character.     *)
(*   None       the string "None" where the slot holds an opaque value     *)
(*              (plain_key, default, attribute, plain_field); the record   *)
(*              NoneSet where the slot holds an optional collection; the   *)
(*              record PyNone where it holds an optional field object.     *)
(*   list, set  a set where the code only tests membership or iterates     *)
(*              into a set (_nested, _fields_recursive, ...).              *)
(*   dict       a function.                                                *)
(***************************************************************************)
EXTENDS Integers, Sequences, FiniteSets, TLC

VARIABLES
    \* Fieldset.marshall_dict on one fieldset instance
    plan_pc, fieldset, selected_fields, selected_embed, result_dict,
    \* FieldSetParser: one parser, one call
    parser_pc, possible_fields, value, parsed,
    \* ObjectMemberField.format: one adapter, one source object
    member_pc, adapter, source, formatted,
    \* the fieldset classes: their attributes, their Meta blocks, the two caches that
    \* FieldsetMeta keeps on each class, and what the last operation returned (the
    \* instance, when it was an instantiation)
    cls_dict, cls_meta, unbound_fields, metadata_cls, instance,
    \* threads that run FieldsetMeta.__call__ / __setattr__ on one class step by step:
    \* each thread's position, the local variable "fields" of __call__ (with the instance
    \* the call made), and the attribute the __setattr__ writes
    race_pc, race_local, writing,
    \* one invocation of the wrapper made by Fieldset.__call__: its position, the fieldset
    \* (self), the request's two query arguments, and the wrapper's locals resp, parsed,
    \* marshall_data; events lists what has run, returned is what the wrapper gave back
    wrap_pc, wrapped, request, resp, parsed_overrides, marshall_data, events, returned

vars_plan == <<plan_pc, fieldset, selected_fields, selected_embed, result_dict>>

vars_parser == <<parser_pc, possible_fields, value, parsed>>

vars_member == <<member_pc, adapter, source, formatted>>

vars_class == <<cls_dict, cls_meta, unbound_fields, metadata_cls, instance>>

vars_race == <<race_pc, race_local, writing>>

vars_wrap == <<wrap_pc, wrapped, request, resp, parsed_overrides, marshall_data, events, returned>>

vars == <<vars_plan, vars_parser, vars_member, vars_class, vars_race, vars_wrap>>

\* what each model leaves alone
not_plan == <<vars_parser, vars_member, vars_class, vars_race, vars_wrap>>

not_parser == <<vars_plan, vars_member, vars_class, vars_race, vars_wrap>>

not_member == <<vars_plan, vars_parser, vars_class, vars_race, vars_wrap>>

not_class == <<vars_plan, vars_parser, vars_member, vars_wrap>>

not_race == <<vars_plan, vars_parser, vars_member, vars_wrap>>

not_wrap == <<vars_plan, vars_parser, vars_member, vars_class, vars_race>>

-----------------------------------------------------------------------------
(* Bounds *)

\* longest "fields" query argument of a request
MaxArg == 3

\* largest selection set handed to marshall_dict
MaxSel == 2

\* longest string handed to a FieldSetParser
MaxLen == 5

-----------------------------------------------------------------------------
(* Python values *)

None == "None"

NoneSet == [isnone |-> TRUE, elems |-> {}]

SomeSet(s) == [isnone |-> FALSE, elems |-> s]

PyNone == [kind |-> "NoneType"]

\* what a call does: return a value, or raise an exception
Returned(v) == [raised |-> None, value |-> v]

Raised(exc) == [raised |-> exc, value |-> << >>]

\* the str made of one chunk
N(s) == <<s>>

\* "%s.%s" % (name, rest)
Dotted(name, rest) == name \o <<".">> \o rest

\* "." in s
HasDot(s) == \E i \in 1..Len(s) : s[i] = "."

\* s.split(".", 1), for a string that holds a dot
SplitDot(s) ==
    LET i == CHOOSE k \in 1..Len(s) : s[k] = "." /\ \A j \in 1..(k-1) : s[j] # "."
    IN  <<SubSeq(s, 1, i - 1), SubSeq(s, i + 1, Len(s))>>

-----------------------------------------------------------------------------
(* fields.py *)

\* a flask-restful scalar field (fields.String, fields.Integer): it has format and output
Raw(type) == [kind |-> "Raw", type |-> type]

\* fields.List(cls_or_instance)
List(container) == [kind |-> "List", container |-> container]

\* OptionalNestedField.__init__; nested is a fieldset instance
OptionalNestedField(nested, plain_key, default, attribute, allow_none, plain_field) ==
    [kind |-> "OptionalNestedField", nested |-> nested, plain_key |-> plain_key,
     default |-> default, attribute |-> attribute, allow_none |-> allow_none,
     plain_field |-> plain_field]

\* ObjectMemberField.__init__
ObjectMemberField(member, default, attribute, member_field) ==
    [kind |-> "ObjectMemberField", member |-> member, default |-> default,
     attribute |-> attribute, member_field |-> member_field]

\* OptionalNestedField.key_field
key_field(f) ==
    IF f.plain_key = None THEN PyNone
    ELSE ObjectMemberField(f.plain_key, f.default, f.attribute, f.plain_field)

\* OptionalNestedField.nested_fieldset
nested_fieldset(f) == f.nested

\* OptionalNestedField.nested_kwargs
nested_kwargs(f) ==
    [attribute |-> f.attribute, default |-> f.default, allow_null |-> f.allow_none]

\* fields.Nested(nested, attribute=, default=, allow_null=)
Nested(nested, kw) ==
    [kind |-> "Nested", nested |-> nested, attribute |-> kw.attribute,
     default |-> kw.default, allow_null |-> kw.allow_null]

-----------------------------------------------------------------------------
(* fields.py: ObjectMemberField.format *)

\* The values of members: an int n is "int:n", a str s is "str:s", None is None.
\* fields.String.format(v): str(v)
String_format(v) ==
    CASE v = "int:2" -> Returned("str:2")
      [] v = "int:7" -> Returned("str:7")
      [] v = None -> Returned("str:None")
      [] OTHER -> Returned(v)

\* fields.Integer().format(v): the field's default, 0, for None, else int(v)
Integer_format(v) ==
    CASE v = "int:2" -> Returned("int:2")
      [] v = "int:7" -> Returned("int:7")
      [] v = "str:2" -> Returned("int:2")
      [] v = None -> Returned("int:0")
      [] OTHER -> Raised("MarshallingException")

\* ObjectMemberField._embedded_instance: a field class is instantiated
embedded_instance(member_field) ==
    CASE member_field = "String" -> "String()"
      [] member_field = "Integer" -> "Integer()"
      [] OTHER -> member_field

\* <field instance>.format(v)
field_format(field, v) ==
    IF field = "String()" THEN String_format(v) ELSE Integer_format(v)

\* hasattr(obj, member); an object is the function from its members to their values
hasattr(obj, member) == member \in DOMAIN obj

\* getattr(obj, member)
getattr(obj, member) == obj[member]

\* ObjectMemberField.format(value)
ObjectMemberField_format(self, obj) ==
    IF hasattr(obj, self.member)
    THEN LET attr == getattr(obj, self.member)
         IN  IF self.member_field = None THEN Returned(attr)
             ELSE field_format(embedded_instance(self.member_field), attr)
    ELSE Returned(None)

-----------------------------------------------------------------------------
(* fieldset.py: FieldsetBase *)

\* getattr(f, "_optional_nested", None)
optional_nested(f) == f.kind = "OptionalNestedField"

\* isinstance(f, fields.List)
isList(f) == f.kind = "List"

find_nested(fields) ==
    {name \in DOMAIN fields :
        \/ optional_nested(fields[name])
        \/ (isList(fields[name]) /\ optional_nested(fields[name].container))}

\* the nested fieldset of a nested field, through a List
nested_of(f) == IF isList(f) THEN nested_fieldset(f.container) ELSE nested_fieldset(f)

find_nested_all(fields, nested) ==
    nested \cup
    {Dotted(name, nn) : <<name, nn>> \in
        {pr \in nested \X UNION {nested_of(fields[n]).nested_recursive : n \in nested} :
            pr[2] \in nested_of(fields[pr[1]]).nested_recursive}}

\* the second loop of _find_fields_all left out
find_fields_all_direct_only(fields, nested) == DOMAIN fields

find_fields_all(fields, nested) ==
    DOMAIN fields \cup
    {Dotted(name, nf) : <<name, nf>> \in
        {pr \in nested \X UNION {nested_of(fields[n]).fields_recursive : n \in nested} :
            pr[2] \in nested_of(fields[pr[1]]).fields_recursive}}

find_default_fields(fields, meta) ==
    IF meta.default_fields.isnone THEN DOMAIN fields ELSE meta.default_fields.elems

\* default_embedd = None read as "embed nothing"
find_default_embedd_none(nested, meta) ==
    IF meta.default_embedd.isnone THEN {} ELSE meta.default_embedd.elems

find_default_embedd(nested, meta) ==
    IF meta.default_embedd.isnone THEN nested ELSE meta.default_embedd.elems

\* FieldsetBase.__init__(created_fields, meta)
FieldsetBase(created_fields, meta) ==
    LET nested == find_nested(created_fields)
    IN  [meta |-> meta,
         fields |-> created_fields,
         nested |-> nested,
         nested_recursive |-> find_nested_all(created_fields, nested),
         fields_recursive |-> find_fields_all(created_fields, nested),
         default_fields |-> find_default_fields(created_fields, meta),
         default_embedd |-> find_default_embedd(nested, meta)]

all_field_names(self) == self.fields_recursive

nested_field_names(self) == self.nested_recursive

-----------------------------------------------------------------------------
(* fieldset.py: FieldsetMeta, DefaultMeta, Fieldset.__init__ *)

\* The classes: Fieldset, class A(Fieldset), class B(A).  cls.__mro__, up to Fieldset
\* (FieldsetBase and object declare no Meta and no field)
mro(cls) ==
    CASE cls = "B" -> <<"B", "A", "Fieldset">>
      [] cls = "A" -> <<"A", "Fieldset">>
      [] cls = "Fieldset" -> <<"Fieldset">>

\* cls.__mro__ walked from the base to the most derived class
mro_reversed(cls) ==
    CASE cls = "B" -> <<"Fieldset", "A", "B">>
      [] cls = "A" -> <<"Fieldset", "A">>
      [] cls = "Fieldset" -> <<"Fieldset">>

\* A class that declares a Meta holds a block: the block class (its identity) and the
\* options it sets.  NoBlock: 'Meta' is not in the class's __dict__.
Block(id, attrs) == [id |-> id, attrs |-> attrs]

NoBlock == Block(None, << >>)

\* class DefaultMeta
DefaultMeta ==
    Block("DefaultMeta",
          [default_fields |-> NoneSet, default_embedd |-> NoneSet,
           fields_kw |-> "fields", embedd_kw |-> "embedd"])

\* a cache attribute of a class: None, or the cached value
Empty == [isnone |-> TRUE, cached |-> << >>]

Cached(v) == [isnone |-> FALSE, cached |-> v]

\* name.startswith('_'); the underscore that starts a name is a chunk of its own
is_private(name) == Len(name) > 0 /\ name[1] = "_"

\* hasattr(v, 'format') and hasattr(v, "output")
is_field(v) == v.kind \in {"Raw", "List", "OptionalNestedField", "ObjectMemberField"}

\* the classes of cls.__mro__ whose __dict__ holds name
holders(dicts, cls, name) ==
    {i \in 1..Len(mro(cls)) : name \in DOMAIN dicts[mro(cls)[i]]}

\* dir(cls): the names in the __dict__ of the classes of cls.__mro__
dir(dicts, cls) == UNION {DOMAIN dicts[mro(cls)[i]] : i \in 1..Len(mro(cls))}

\* getattr(cls, name): the attribute of the first class of cls.__mro__ that holds it
class_getattr(dicts, cls, name) ==
    LET i == CHOOSE k \in holders(dicts, cls, name) : \A j \in holders(dicts, cls, name) : k <= j
    IN  dicts[mro(cls)[i]][name]

\* FieldsetMeta.__call__, lines 14-19: the (name, field) pairs found on the class
scan_fields(dicts, cls) ==
    [name \in {n \in dir(dicts, cls) :
                  ~is_private(n) /\ is_field(class_getattr(dicts, cls, n))}
        |-> class_getattr(dicts, cls, name)]

RECURSIVE blocks_along(_, _)

\* the Meta of every class of the list that has 'Meta' in its __dict__, in the list's order
blocks_along(metas, classes) ==
    IF Len(classes) = 0 THEN << >>
    ELSE (IF metas[Head(classes)] # NoBlock THEN <<metas[Head(classes)]>> ELSE << >>)
         \o blocks_along(metas, Tail(classes))

\* the bases collected from the base class to the most derived one
meta_bases_reversed(metas, cls) == blocks_along(metas, mro_reversed(cls))

\* FieldsetMeta.__call__, lines 22-25: bases
meta_bases(metas, cls) == blocks_along(metas, mro(cls))

\* type('Meta', tuple(bases), {}) raises TypeError("duplicate base class")
duplicate_base(bases) ==
    \E i \in 1..Len(bases) : \E j \in 1..Len(bases) : i # j /\ bases[i].id = bases[j].id

\* an attribute of an instance of type('Meta', bases, {}): the first base that sets it
meta_attr(bases, key) ==
    LET setters == {i \in 1..Len(bases) : key \in DOMAIN bases[i].attrs}
        i == CHOOSE k \in setters : \A j \in setters : k <= j
    IN  bases[i].attrs[key]

\* self._metadata_cls(), as far as the fieldset reads it
meta_obj(bases) ==
    [default_fields |-> meta_attr(bases, "default_fields"),
     default_embedd |-> meta_attr(bases, "default_embedd"),
     fields_kw |-> meta_attr(bases, "fields_kw"),
     embedd_kw |-> meta_attr(bases, "embedd_kw")]

\* Fieldset.__init__: dict(self._unbound_fields), meta=self._metadata_cls()
Fieldset_init(cls, unbound, metadata) ==
    [cls |-> cls, raised |-> None,
     self |-> FieldsetBase(unbound.cached, meta_obj(metadata.cached))]

\* no instance: the call raised
NoInstance(cls, exc) == [cls |-> cls, raised |-> exc, self |-> PyNone]

\* FieldsetMeta.__call__ lines 13-20: the field cache after the first if
filled_fields(dicts, unbound, cls) ==
    IF unbound[cls].isnone THEN Cached(scan_fields(dicts, cls)) ELSE unbound[cls]

\* FieldsetMeta.__call__ lines 21-26: the Meta cache after the second if
filled_metadata(metas, metadata, cls) ==
    IF metadata[cls].isnone THEN Cached(meta_bases(metas, cls)) ELSE metadata[cls]

\* FieldsetMeta.__call__(cls) and the Fieldset.__init__ it runs
Call(cls) ==
    LET unbound == filled_fields(cls_dict, unbound_fields, cls)
        metadata == filled_metadata(cls_meta, metadata_cls, cls)
    IN  /\ unbound_fields' = [unbound_fields EXCEPT ![cls] = unbound]
        /\ IF duplicate_base(metadata.cached)
           THEN /\ metadata_cls' = metadata_cls
                /\ instance' = NoInstance(cls, "TypeError")
           ELSE /\ metadata_cls' = [metadata_cls EXCEPT ![cls] = metadata]
                /\ instance' = Fieldset_init(cls, unbound, metadata)
        /\ UNCHANGED <<cls_dict, cls_meta>>
        /\ UNCHANGED not_class
        /\ UNCHANGED vars_race

\* FieldsetMeta.__setattr__(cls, name, value), name # 'Meta'
SetAttr(cls, name, v) ==
    /\ unbound_fields' =
          IF ~is_private(name) /\ is_field(v)
          THEN [unbound_fields EXCEPT ![cls] = Empty] ELSE unbound_fields
    /\ cls_dict' = [cls_dict EXCEPT ![cls] =
                        [n \in DOMAIN cls_dict[cls] \cup {name} |->
                            IF n = name THEN v ELSE cls_dict[cls][n]]]
    /\ instance' = NoInstance(None, None)
    /\ UNCHANGED <<cls_meta, metadata_cls>>
    /\ UNCHANGED not_class
    /\ UNCHANGED vars_race

\* FieldsetMeta.__setattr__(cls, 'Meta', block)
SetMeta(cls, block) ==
    /\ metadata_cls' = [metadata_cls EXCEPT ![cls] = Empty]
    /\ cls_meta' = [cls_meta EXCEPT ![cls] = block]
    /\ instance' = NoInstance(None, None)
    /\ UNCHANGED <<cls_dict, unbound_fields>>
    /\ UNCHANGED not_class
    /\ UNCHANGED vars_race

\* FieldsetMeta.__delattr__(cls, name), name # 'Meta': the cache is cleared first, then
\* type.__delattr__ removes the attribute (or raises AttributeError when cls has none)
DelAttr(cls, name) ==
    /\ unbound_fields' =
          IF ~is_private(name)
          THEN [unbound_fields EXCEPT ![cls] = Empty] ELSE unbound_fields
    /\ cls_dict' = [cls_dict EXCEPT ![cls] =
                        [n \in DOMAIN cls_dict[cls] \ {name} |-> cls_dict[cls][n]]]
    /\ instance' = NoInstance(None, None)
    /\ UNCHANGED <<cls_meta, metadata_cls>>
    /\ UNCHANGED not_class
    /\ UNCHANGED vars_race

\* FieldsetMeta.__delattr__(cls, 'Meta'): 'Meta' is a public name, so the field cache
\* is cleared; _metadata_cls is left as it is
DelMeta(cls) ==
    /\ unbound_fields' = [unbound_fields EXCEPT ![cls] = Empty]
    /\ cls_meta' = [cls_meta EXCEPT ![cls] = NoBlock]
    /\ instance' = NoInstance(None, None)
    /\ UNCHANGED <<cls_dict, metadata_cls>>
    /\ UNCHANGED not_class
    /\ UNCHANGED vars_race

-----------------------------------------------------------------------------
(* fieldset.py: Fieldset.marshall_dict *)

fields_direct_of(self, sf) == sf \cap DOMAIN self.fields

\* defaultdict(set) filled by the loop over (selected - direct): the entry of one field
filtered(selected, direct, field) ==
    {SplitDot(p)[2] : p \in {q \in selected \ direct : HasDot(q) /\ SplitDot(q)[1] = field}}

RECURSIVE marshall_dict(_, _, _)

\* the entry the loop body stores for one direct field, or the exception it raises
plan_entry(self, field, embed_direct, fn, fe) ==
    LET f == self.fields[field] IN
    IF field \in self.nested
    THEN IF field \in embed_direct
         THEN LET sub == marshall_dict(nested_of(f), SomeSet(fn), SomeSet(fe)) IN
              IF sub.raised # None THEN sub
              ELSE IF isList(f)
                   THEN Returned(List(Nested(sub.value, nested_kwargs(f.container))))
                   ELSE Returned(Nested(sub.value, nested_kwargs(f)))
         ELSE IF isList(f)
              THEN Raised("AttributeError")    \* fields.List has no key_field
              ELSE Returned(key_field(f))
    ELSE Returned(f)

marshall_dict(self, sf_arg, se_arg) ==
    LET sf == IF sf_arg.isnone \/ Cardinality(sf_arg.elems) = 0
              THEN self.default_fields ELSE sf_arg.elems
        fields_direct == fields_direct_of(self, sf)
        se == IF se_arg.isnone \/ Cardinality(se_arg.elems) = 0
              THEN self.default_embedd ELSE se_arg.elems
        embed_direct == se \cap fields_direct
        entry == [field \in fields_direct |->
                    plan_entry(self, field, embed_direct,
                               filtered(sf, fields_direct, field),
                               filtered(se, embed_direct, field))]
    IN  IF \E field \in fields_direct : entry[field].raised # None
        THEN Raised("AttributeError")
        ELSE Returned([field \in fields_direct |-> entry[field].value])

-----------------------------------------------------------------------------
(* fieldset.py: FieldSetParser *)

\* the characters of the strings handed to the parser
Alphabet == {"a", "b", ".", ","}

\* ord(c)
Ord(c) == CASE c = " " -> 32 [] c = "," -> 44 [] c = "." -> 46 [] c = "a" -> 97 [] c = "b" -> 98

\* s < t for two str: the first differing character decides, a proper prefix is smaller
StrLess(s, t) ==
    \E k \in 1..(Len(t)) :
        /\ \A j \in 1..(k - 1) : j <= Len(s) /\ s[j] = t[j]
        /\ \/ Len(s) = k - 1
           \/ (Len(s) >= k /\ Ord(s[k]) < Ord(t[k]))

RECURSIVE split_comma(_)

\* value.split(",")
split_comma(s) ==
    IF \A i \in 1..Len(s) : s[i] # "," THEN <<s>>
    ELSE LET i == CHOOSE k \in 1..Len(s) : s[k] = "," /\ \A j \in 1..(k - 1) : s[j] # ","
         IN  <<SubSeq(s, 1, i - 1)>> \o split_comma(SubSeq(s, i + 1, Len(s)))

\* set(a list)
set(l) == {l[i] : i \in 1..Len(l)}

RECURSIVE reverse_sorted(_)

\* sorted(unknown, reverse=True)
reverse_sorted(S) ==
    IF S = {} THEN << >>
    ELSE LET m == CHOOSE x \in S : \A y \in S \ {x} : StrLess(y, x)
         IN  <<m>> \o reverse_sorted(S \ {m})

RECURSIVE sorted(_)

\* sorted(unknown)
sorted(S) ==
    IF S = {} THEN << >>
    ELSE LET m == CHOOSE x \in S : \A y \in S \ {x} : StrLess(x, y)
         IN  <<m>> \o sorted(S \ {m})

RECURSIVE join(_, _)

\* sep.join(l)
join(sep, l) ==
    IF Len(l) = 0 THEN << >>
    ELSE IF Len(l) = 1 THEN l[1]
    ELSE l[1] \o sep \o join(sep, Tail(l))

\* a str argument, and an argument of another type
Str(chars) == [type |-> "str", chars |-> chars]

NotStr == [type |-> "int", chars |-> << >>]

\* what FieldSetParser.__call__ does: return None or a set, or raise ValueError(message)
ParserReturned(v) == [raised |-> None, message |-> << >>, value |-> v]

ParserRaised(message) == [raised |-> "ValueError", message |-> message, value |-> NoneSet]

\* "Unknown fields: %s" % ", ".join(sorted(unknown))
unknown_message(unknown) == <<"Unknown fields: ">> \o join(<<",", " ">>, sorted(unknown))

\* FieldSetParser.__call__(value), self.possible_fields = possible
FieldSetParser_call(possible, v) ==
    IF v.type # "str" THEN ParserRaised(<<"Need a str">>)
    ELSE IF Len(v.chars) = 0 THEN ParserReturned(NoneSet)
    ELSE LET elements == set(split_comma(v.chars))
             unknown == elements \ possible
         IN  IF Cardinality(unknown) # 0 THEN ParserRaised(unknown_message(unknown))
             ELSE ParserReturned(SomeSet(elements))

-----------------------------------------------------------------------------
(* The state of a model that is not running *)

PlanIdle ==
    /\ plan_pc = "idle"
    /\ fieldset = PyNone
    /\ selected_fields = NoneSet
    /\ selected_embed = NoneSet
    /\ result_dict = Returned(<< >>)

ParserIdle ==
    /\ parser_pc = "idle"
    /\ possible_fields = {}
    /\ value = NotStr
    /\ parsed = ParserReturned(NoneSet)

MemberIdle ==
    /\ member_pc = "idle"
    /\ adapter = PyNone
    /\ source = << >>
    /\ formatted = Returned(None)

ClassIdle ==
    /\ cls_dict = << >>
    /\ cls_meta = << >>
    /\ unbound_fields = << >>
    /\ metadata_cls = << >>
    /\ instance = PyNone

WrapIdle ==
    /\ wrap_pc = "idle"
    /\ wrapped = PyNone
    /\ request = PyNone
    /\ resp = PyNone
    /\ parsed_overrides = PyNone
    /\ marshall_data = PyNone
    /\ events = << >>
    /\ returned = PyNone

RaceIdle ==
    /\ race_pc = << >>
    /\ race_local = << >>
    /\ writing = PyNone

-----------------------------------------------------------------------------
(* The parser model: bind a parser to a set of paths, then call it once *)

\* the str of at most n characters
RECURSIVE Strings(_)
Strings(n) ==
    IF n = 0 THEN {<< >>}
    ELSE LET shorter == Strings(n - 1)
         IN  shorter \cup {Append(s, c) : <<s, c>> \in
                              {pr \in shorter \X Alphabet : Len(pr[1]) = n - 1}}

\* the paths a parser may be bound to
PossiblePaths == {<<"a">>, <<"b">>, <<"a", ".", "b">>, << >>}

InitParser ==
    /\ WrapIdle
    /\ RaceIdle
    /\ ClassIdle
    /\ PlanIdle
    /\ MemberIdle
    /\ parser_pc = "new"
    /\ possible_fields = {}
    /\ value = NotStr
    /\ parsed = ParserReturned(NoneSet)

\* FieldSetParser.__init__(possible_fields)
NewParser ==
    /\ parser_pc = "new"
    /\ \E p \in SUBSET PossiblePaths : possible_fields' = p
    /\ parser_pc' = "bound"
    /\ UNCHANGED <<value, parsed>>
    /\ UNCHANGED not_parser

\* FieldSetParser.__call__(value)
CallParser ==
    /\ parser_pc = "bound"
    /\ \E v \in {Str(s) : s \in Strings(MaxLen)} \cup {NotStr} :
          /\ value' = v
          /\ parsed' = FieldSetParser_call(possible_fields, v)
    /\ parser_pc' = "called"
    /\ UNCHANGED possible_fields
    /\ UNCHANGED not_parser

NextParser == NewParser \/ CallParser

SpecParser == InitParser /\ [][NextParser]_vars

-----------------------------------------------------------------------------
(* Properties of the parser model *)

\* the tokens of s: the maximal comma-free stretches between its ends and its commas
Tokens(s) ==
    {SubSeq(s, pr[1], pr[2]) : pr \in
        {q \in (1..(Len(s) + 1)) \X (0..Len(s)) :
            /\ q[1] <= q[2] + 1
            /\ (q[1] = 1 \/ s[q[1] - 1] = ",")
            /\ (q[2] = Len(s) \/ s[q[2] + 1] = ",")
            /\ \A k \in q[1]..q[2] : s[k] # ","}}

\* the lists that hold exactly the strings of U, in increasing order
Listings(U) ==
    {l \in [1..Cardinality(U) -> U] :
        /\ {l[i] : i \in 1..Cardinality(U)} = U
        /\ \A i \in 1..Cardinality(U) : \A j \in 1..Cardinality(U) :
              i < j => StrLess(l[i], l[j])}

\* C3: called with a non-empty string, the parser returns exactly the set T of its
\* comma-separated tokens when T is a subset of the valid paths, and otherwise raises an
\* error whose message lists exactly the tokens of T that are not valid, sorted, and
\* returns no set.
C3_ParserValidates ==
    (parser_pc = "called" /\ value.type = "str" /\ Len(value.chars) > 0) =>
        LET T == Tokens(value.chars)
            U == T \ possible_fields
        IN  IF T \subseteq possible_fields
            THEN parsed = [raised |-> None, message |-> << >>, value |-> SomeSet(T)]
            ELSE /\ parsed.raised = "ValueError"
                 /\ parsed.value = NoneSet
                 /\ \E l \in Listings(U) :
                       parsed.message = <<"Unknown fields: ">> \o join(<<",", " ">>, l)

\* "b,a,b" against the valid paths {}: the error lists a, b
C3_Witness ==
    /\ parser_pc = "called"
    /\ value = Str(<<"b", ",", "a", ",", "b">>)
    /\ possible_fields = {}
    /\ parsed.raised = "ValueError"
    /\ parsed.message = <<"Unknown fields: ", "a", ",", " ", "b">>

-----------------------------------------------------------------------------
(* The member model: make an ObjectMemberField, then format one object with it *)

MemberNames == {"test", "id"}

MemberValues == {None, "int:2", "int:7", "str:2", "str:x"}

Defaults == {None, "int:0", "str:n/a"}

MemberFields == {None, "String", "String()", "Integer"}

\* the objects: some of the members, each with a value
SourceObjects == UNION {[d -> MemberValues] : d \in SUBSET MemberNames}

InitMember ==
    /\ WrapIdle
    /\ RaceIdle
    /\ ClassIdle
    /\ PlanIdle
    /\ ParserIdle
    /\ member_pc = "new"
    /\ adapter = PyNone
    /\ source = << >>
    /\ formatted = Returned(None)

\* ObjectMemberField(member, default, attribute, member_field)
NewObjectMemberField ==
    /\ member_pc = "new"
    /\ \E m \in MemberNames, d \in Defaults, mf \in MemberFields :
          adapter' = ObjectMemberField(m, d, None, mf)
    /\ member_pc' = "made"
    /\ UNCHANGED <<source, formatted>>
    /\ UNCHANGED not_member

\* OptionalNestedField(nested, plain_key, default, attribute, plain_field=...).key_field()
NewKeyField ==
    /\ member_pc = "new"
    /\ \E m \in MemberNames, d \in Defaults, mf \in MemberFields :
          adapter' = key_field(OptionalNestedField(PyNone, m, d, "owner", FALSE, mf))
    /\ member_pc' = "made"
    /\ UNCHANGED <<source, formatted>>
    /\ UNCHANGED not_member

\* adapter.format(obj)
Format ==
    /\ member_pc = "made"
    /\ \E obj \in SourceObjects :
          /\ source' = obj
          /\ formatted' = ObjectMemberField_format(adapter, obj)
    /\ member_pc' = "formatted"
    /\ UNCHANGED adapter
    /\ UNCHANGED not_member

NextMember == NewObjectMemberField \/ NewKeyField \/ Format

SpecMember == InitMember /\ [][NextMember]_vars

\* C4: format never fails on a missing member: an object without the member gives the
\* adapter's configured default; an object with the member gives the member's value,
\* passed through the sub-formatter when one is configured.
C4_MissingMemberGivesDefault ==
    member_pc = "formatted" =>
        IF adapter.member \notin DOMAIN source
        THEN formatted = [raised |-> None, value |-> adapter.default]
        ELSE IF adapter.member_field = None
             THEN formatted = [raised |-> None, value |-> source[adapter.member]]
             ELSE formatted =
                    field_format(embedded_instance(adapter.member_field), source[adapter.member])

-----------------------------------------------------------------------------
(* The class model: the types are mutated and instantiated, one operation at a time *)

Classes == {"A", "B"}

AttrNames == {N("x"), <<"_", "helper">>}

\* two fields, and a value that is no field
AttrValues ==
    {Raw("String"),
     OptionalNestedField(FieldsetBase((N("id") :> Raw("Integer")), meta_obj(<<DefaultMeta>>)),
                         "id", None, None, FALSE, None),
     [kind |-> "int"]}

\* class M1: fields_kw = "f1"; default_fields = []     class M2: fields_kw = "f2"; embedd_kw = "e2"
MetaBlocks ==
    {Block("M1", [fields_kw |-> "f1", default_fields |-> SomeSet({})]),
     Block("M2", [fields_kw |-> "f2", embedd_kw |-> "e2"])}

\* class A(Fieldset): x = fields.String      class B(A): pass
InitClass ==
    /\ WrapIdle
    /\ RaceIdle
    /\ PlanIdle
    /\ ParserIdle
    /\ MemberIdle
    /\ cls_dict = [c \in {"Fieldset", "A", "B"} |->
                      IF c = "A" THEN (N("x") :> Raw("String")) ELSE << >>]
    /\ cls_meta = [c \in {"Fieldset", "A", "B"} |->
                      IF c = "Fieldset" THEN DefaultMeta ELSE NoBlock]
    /\ unbound_fields = [c \in {"Fieldset", "A", "B"} |-> Empty]
    /\ metadata_cls = [c \in {"Fieldset", "A", "B"} |-> Empty]
    /\ instance = NoInstance(None, None)

Instantiate == \E c \in Classes : Call(c)

SetField == \E c \in Classes, n \in AttrNames, v \in AttrValues : SetAttr(c, n, v)

AssignMeta == \E c \in Classes, b \in MetaBlocks : SetMeta(c, b)

DeleteField == \E c \in Classes, n \in AttrNames : DelAttr(c, n)

DeleteMeta == \E c \in Classes : DelMeta(c)

NextClass == Instantiate \/ SetField \/ AssignMeta \/ DeleteField \/ DeleteMeta

SpecClass == InitClass /\ [][NextClass]_vars

\* the instance that instantiating cls yields when nothing is cached
FromScratch(cls) ==
    LET bases == meta_bases(cls_meta, cls)
    IN  IF duplicate_base(bases) THEN NoInstance(cls, "TypeError")
        ELSE [cls |-> cls, raised |-> None,
              self |-> FieldsetBase(scan_fields(cls_dict, cls), meta_obj(bases))]

\* C5: after any sequence of operations on the types, an instantiation yields an instance
\* whose fields, all_field_names, nested_field_names and Meta are those computed from
\* scratch from the type's current declaration.
C5_InstanceIsFresh == instance.cls # None => instance = FromScratch(instance.cls)

-----------------------------------------------------------------------------
(* The Meta model: classes A and B declared with any Meta blocks, then instantiated *)

MetaKeys == {"default_fields", "default_embedd", "fields_kw", "embedd_kw"}

\* what a "class Meta:" block written in class cls may set each option to
FullBlocks(cls) ==
    [default_fields : {NoneSet, SomeSet(IF cls = "A" THEN {} ELSE {N("x")})},
     default_embedd : {NoneSet, SomeSet(IF cls = "A" THEN {} ELSE {N("x")})},
     fields_kw : {IF cls = "A" THEN "fields_a" ELSE "fields_b"},
     embedd_kw : {IF cls = "A" THEN "embedd_a" ELSE "embedd_b"}]

\* the Meta blocks of class cls: each sets some of the options
BlocksOf(cls) ==
    {Block(cls, [k \in pr[2] |-> pr[1][k]]) : pr \in FullBlocks(cls) \X SUBSET MetaKeys}

InitMeta ==
    /\ WrapIdle
    /\ RaceIdle
    /\ PlanIdle
    /\ ParserIdle
    /\ MemberIdle
    /\ cls_dict = [c \in {"Fieldset", "A", "B"} |->
                      IF c = "A" THEN (N("x") :> Raw("String")) ELSE << >>]
    /\ \E a \in BlocksOf("A") \cup {NoBlock}, b \in BlocksOf("B") \cup {NoBlock} :
          cls_meta = [c \in {"Fieldset", "A", "B"} |->
                        IF c = "Fieldset" THEN DefaultMeta ELSE IF c = "A" THEN a ELSE b]
    /\ unbound_fields = [c \in {"Fieldset", "A", "B"} |-> Empty]
    /\ metadata_cls = [c \in {"Fieldset", "A", "B"} |-> Empty]
    /\ instance = NoInstance(None, None)

NextMeta == Instantiate

SpecMeta == InitMeta /\ [][NextMeta]_vars

\* how far a class is from Fieldset
Derivation(cls) == CASE cls = "Fieldset" -> 0 [] cls = "A" -> 1 [] cls = "B" -> 2

\* the value of an option for class cls: that of the most derived class, among cls and
\* its ancestors, whose Meta block sets it; the DefaultMeta value when none does
MostDerived(cls, key) ==
    LET setters == {d \in {"A", "B"} :
                      /\ Derivation(d) <= Derivation(cls)
                      /\ key \in DOMAIN cls_meta[d].attrs}
    IN  IF setters = {}
        THEN [default_fields |-> NoneSet, default_embedd |-> NoneSet,
              fields_kw |-> "fields", embedd_kw |-> "embedd"][key]
        ELSE LET d == CHOOSE e \in setters : \A o \in setters : Derivation(o) <= Derivation(e)
             IN  cls_meta[d].attrs[key]

\* C6: every option of an instance's meta has the value set by the Meta block of the most
\* derived class of the type's ancestor chain that sets it, and the DefaultMeta value
\* (None, None, "fields", "embedd") when no class of the chain sets it.
C6_MostDerivedMetaWins ==
    (instance.cls # None /\ instance.raised = None) =>
        \A k \in MetaKeys : instance.self.meta[k] = MostDerived(instance.cls, k)

\* B sets fields_kw, A sets fields_kw and embedd_kw, neither sets default_fields
C6_Witness ==
    /\ instance.cls = "B"
    /\ instance.raised = None
    /\ DOMAIN cls_meta["B"].attrs = {"fields_kw"}
    /\ DOMAIN cls_meta["A"].attrs = {"fields_kw", "embedd_kw"}
    /\ instance.self.meta.fields_kw = "fields_b"
    /\ instance.self.meta.embedd_kw = "embedd_a"
    /\ instance.self.meta.default_fields = NoneSet

-----------------------------------------------------------------------------
(* The race model: two threads instantiate class A while a third one sets an     *)
(* attribute of A; the steps of __call__ and __setattr__ interleave               *)

Instantiators == {"i1", "i2"}

Mutator == "m"

\* class A(Fieldset): x = fields.String, instantiated before or not; the mutator is
\* about to run  A.<name> = <field>
InitRace ==
    /\ WrapIdle
    /\ PlanIdle
    /\ ParserIdle
    /\ MemberIdle
    /\ cls_dict = [c \in {"Fieldset", "A", "B"} |->
                      IF c = "A" THEN (N("x") :> Raw("String")) ELSE << >>]
    /\ cls_meta = [c \in {"Fieldset", "A", "B"} |->
                      IF c = "Fieldset" THEN DefaultMeta ELSE NoBlock]
    \* an earlier A() has filled both caches of A (lines 20 and 26), or none has run
    /\ \E before \in BOOLEAN :
          LET declared == [c \in {"Fieldset", "A", "B"} |-> Empty]
          IN  /\ unbound_fields =
                    IF before
                    THEN [declared EXCEPT !["A"] = filled_fields(cls_dict, declared, "A")]
                    ELSE declared
              /\ metadata_cls =
                    IF before
                    THEN [declared EXCEPT !["A"] = filled_metadata(cls_meta, declared, "A")]
                    ELSE declared
    /\ instance = NoInstance(None, None)
    /\ race_pc = [t \in Instantiators \cup {Mutator} |-> IF t = Mutator THEN "clear" ELSE "test"]
    /\ race_local = [t \in Instantiators |-> [fields |-> << >>, made |-> NoInstance(None, None)]]
    /\ \E n \in {N("x"), N("y")}, v \in {f \in AttrValues : is_field(f)} \cup {Raw("Integer")} :
          writing = [name |-> n, value |-> v]

\* __call__ line 13: if cls._unbound_fields is None
RaceTest(t) ==
    /\ race_pc[t] = "test"
    /\ race_pc' = [race_pc EXCEPT ![t] = IF unbound_fields["A"].isnone THEN "scan" ELSE "meta"]
    /\ UNCHANGED <<race_local, writing>>
    /\ UNCHANGED vars_class
    /\ UNCHANGED not_race

\* __call__ lines 14-19: the loop over dir(cls) fills the local list
RaceScan(t) ==
    /\ race_pc[t] = "scan"
    /\ race_local' = [race_local EXCEPT ![t].fields = scan_fields(cls_dict, "A")]
    /\ race_pc' = [race_pc EXCEPT ![t] = "store"]
    /\ UNCHANGED writing
    /\ UNCHANGED vars_class
    /\ UNCHANGED not_race

\* __call__ line 20: cls._unbound_fields = fields
RaceStore(t) ==
    /\ race_pc[t] = "store"
    /\ unbound_fields' = [unbound_fields EXCEPT !["A"] = Cached(race_local[t].fields)]
    /\ race_pc' = [race_pc EXCEPT ![t] = "meta"]
    /\ UNCHANGED <<race_local, writing>>
    /\ UNCHANGED <<cls_dict, cls_meta, metadata_cls, instance>>
    /\ UNCHANGED not_race

\* __call__ lines 21-26: the Meta cache
RaceMeta(t) ==
    /\ race_pc[t] = "meta"
    /\ metadata_cls' = [metadata_cls EXCEPT !["A"] = filled_metadata(cls_meta, metadata_cls, "A")]
    /\ race_pc' = [race_pc EXCEPT ![t] = "init"]
    /\ UNCHANGED <<race_local, writing>>
    /\ UNCHANGED <<cls_dict, cls_meta, unbound_fields, instance>>
    /\ UNCHANGED not_race

\* __call__ line 28 -> Fieldset.__init__ reads the caches; dict(None) raises TypeError
RaceInit(t) ==
    /\ race_pc[t] = "init"
    /\ race_local' = [race_local EXCEPT ![t].made =
                          IF unbound_fields["A"].isnone THEN NoInstance("A", "TypeError")
                          ELSE Fieldset_init("A", unbound_fields["A"], metadata_cls["A"])]
    /\ race_pc' = [race_pc EXCEPT ![t] = "done"]
    /\ UNCHANGED writing
    /\ UNCHANGED vars_class
    /\ UNCHANGED not_race

\* __setattr__ lines 36-37: cls._unbound_fields = None
RaceClear ==
    /\ race_pc[Mutator] = "clear"
    /\ unbound_fields' =
          IF ~is_private(writing.name) /\ is_field(writing.value)
          THEN [unbound_fields EXCEPT !["A"] = Empty] ELSE unbound_fields
    /\ race_pc' = [race_pc EXCEPT ![Mutator] = "write"]
    /\ UNCHANGED <<race_local, writing>>
    /\ UNCHANGED <<cls_dict, cls_meta, metadata_cls, instance>>
    /\ UNCHANGED not_race

\* __setattr__ line 38: type.__setattr__(cls, name, value)
RaceWrite ==
    /\ race_pc[Mutator] = "write"
    /\ cls_dict' = [cls_dict EXCEPT !["A"] =
                        [n \in DOMAIN cls_dict["A"] \cup {writing.name} |->
                            IF n = writing.name THEN writing.value ELSE cls_dict["A"][n]]]
    /\ race_pc' = [race_pc EXCEPT ![Mutator] = "done"]
    /\ UNCHANGED <<race_local, writing>>
    /\ UNCHANGED <<cls_meta, unbound_fields, metadata_cls, instance>>
    /\ UNCHANGED not_race

NextRace ==
    \/ \E t \in Instantiators :
          RaceTest(t) \/ RaceScan(t) \/ RaceStore(t) \/ RaceMeta(t) \/ RaceInit(t)
    \/ RaceClear
    \/ RaceWrite

SpecRace == InitRace /\ [][NextRace]_vars

\* C10: under every interleaving, once the mutation and the instantiations have completed
\* the cached field list of the type is cleared or holds the newly written field.
C10_NoStaleCacheAfterRace ==
    (\A t \in Instantiators \cup {Mutator} : race_pc[t] = "done") =>
        \/ unbound_fields["A"].isnone
        \/ /\ writing.name \in DOMAIN unbound_fields["A"].cached
           /\ unbound_fields["A"].cached[writing.name] = writing.value

-----------------------------------------------------------------------------
(* The wrapper model: one request served by a handler decorated with a fieldset *)

\* a query argument of the request: missing, or present with a value
Absent == [present |-> FALSE, v |-> NotStr]

Present(v) == [present |-> TRUE, v |-> v]

\* parse_args for one add_argument(kw, type=FieldSetParser(possible)): a missing argument
\* is None, a ValueError of the type aborts the request
parse_arg(possible, arg) ==
    IF ~arg.present THEN Returned(NoneSet)
    ELSE LET r == FieldSetParser_call(possible, arg.v)
         IN  IF r.raised # None THEN Raised("BadRequest") ELSE Returned(r.value)

\* a parse that takes a rejected argument as a missing one
parse_request_overrides_lenient(self, req) ==
    LET f == parse_arg(all_field_names(self), req.fields)
        e == parse_arg(nested_field_names(self), req.embedd)
    IN  Returned(<<IF f.raised # None THEN NoneSet ELSE f.value,
                   IF e.raised # None THEN NoneSet ELSE e.value>>)

\* Fieldset._parse_request_overrides
parse_request_overrides(self, req) ==
    LET f == parse_arg(all_field_names(self), req.fields)
        e == parse_arg(nested_field_names(self), req.embedd)
    IN  IF f.raised # None THEN f
        ELSE IF e.raised # None THEN e
        ELSE Returned(<<f.value, e.value>>)

\* what the handler gives back: a payload, or a tuple that starts with one
Bare(data) == [tuple |-> FALSE, items |-> <<data>>]

Tuple(items) == [tuple |-> TRUE, items |-> items]

\* flask_restful.utils.unpack, for a tuple
unpack(r) ==
    IF Len(r.items) = 3 THEN r.items
    ELSE IF Len(r.items) = 2 THEN <<r.items[1], r.items[2], "{}">>
    ELSE <<r.items, "200", "{}">>

\* flask_restful.marshal(data, fields): the output mapping
marshal(data, fields) == [marshalled |-> data, with |-> fields]

MetaOfDefault == meta_obj(<<DefaultMeta>>)

WrapLeaf == FieldsetBase((N("a") :> Raw("Integer")), MetaOfDefault)

\* class W(Fieldset): a = String; b = OptionalNestedField(Leaf, "a"), and the same with
\* b = List(OptionalNestedField(Leaf, "a")) and Meta.default_embedd = []
WrapFieldsets ==
    {FieldsetBase((N("a") :> Raw("String")) @@
                  (N("b") :> OptionalNestedField(WrapLeaf, "a", None, None, FALSE, None)),
                  MetaOfDefault),
     FieldsetBase((N("a") :> Raw("String")) @@
                  (N("b") :> List(OptionalNestedField(WrapLeaf, "a", None, None, FALSE, None))),
                  [MetaOfDefault EXCEPT !.default_embedd = SomeSet({})])}

HandlerResults ==
    {Returned(Bare("payload")), Returned(Tuple(<<"payload", "201">>)),
     Returned(Tuple(<<"payload", "201", "headers">>)), Raised("HandlerError")}

InitWrap ==
    /\ PlanIdle
    /\ ParserIdle
    /\ MemberIdle
    /\ ClassIdle
    /\ RaceIdle
    /\ wrap_pc = "start"
    /\ wrapped \in WrapFieldsets
    /\ \E f \in {Absent, Present(NotStr)} \cup {Present(Str(c)) : c \in Strings(MaxArg)},
          e \in {Absent, Present(NotStr), Present(Str(<< >>)), Present(Str(<<"b">>)),
                 Present(Str(<<"a">>)), Present(Str(<<"b", ",", "b">>))} :
            request = [fields |-> f, embedd |-> e]
    /\ resp = PyNone
    /\ parsed_overrides = PyNone
    /\ marshall_data = PyNone
    /\ events = << >>
    /\ returned = PyNone

\* wrapper line 306: resp = f(*args, **kwargs)
WrapHandler ==
    /\ wrap_pc = "start"
    /\ \E r \in HandlerResults :
          /\ resp' = r
          /\ wrap_pc' = IF r.raised # None THEN "raised" ELSE "parse"
          /\ returned' = IF r.raised # None THEN r ELSE returned
    /\ events' = Append(events, "handler")
    /\ UNCHANGED <<wrapped, request, parsed_overrides, marshall_data>>
    /\ UNCHANGED not_wrap

\* wrapper line 307: parsed = self._parse_request_overrides()
WrapParse ==
    /\ wrap_pc = "parse"
    /\ LET r == parse_request_overrides(wrapped, request)
       IN  /\ parsed_overrides' = r
           /\ wrap_pc' = IF r.raised # None THEN "raised" ELSE "plan"
           /\ returned' = IF r.raised # None THEN r ELSE returned
    /\ events' = Append(events, "parse")
    /\ UNCHANGED <<wrapped, request, resp, marshall_data>>
    /\ UNCHANGED not_wrap

\* wrapper line 308: marshall_data = self.marshall_dict(*parsed)
WrapPlan ==
    /\ wrap_pc = "plan"
    /\ LET r == marshall_dict(wrapped, parsed_overrides.value[1], parsed_overrides.value[2])
       IN  /\ marshall_data' = r
           /\ wrap_pc' = IF r.raised # None THEN "raised" ELSE "marshal"
           /\ returned' = IF r.raised # None THEN Raised(r.raised) ELSE returned
    /\ events' = Append(events, "plan")
    /\ UNCHANGED <<wrapped, request, resp, parsed_overrides>>
    /\ UNCHANGED not_wrap

\* wrapper lines 309-313: marshal, and return in the shape the handler used
WrapMarshal ==
    /\ wrap_pc = "marshal"
    /\ returned' =
          IF resp.value.tuple
          THEN LET u == unpack(resp.value)
               IN  Returned(Tuple(<<marshal(u[1], marshall_data.value), u[2], u[3]>>))
          ELSE Returned(Bare(marshal(resp.value.items[1], marshall_data.value)))
    /\ events' = Append(events, "marshal")
    /\ wrap_pc' = "returned"
    /\ UNCHANGED <<wrapped, request, resp, parsed_overrides, marshall_data>>
    /\ UNCHANGED not_wrap

NextWrap == WrapHandler \/ WrapParse \/ WrapPlan \/ WrapMarshal

SpecWrap == InitWrap /\ [][NextWrap]_vars

\* the order the claim gives
EventOrder == <<"handler", "parse", "plan", "marshal">>

\* a selection parameter that is no string, or names a path that is not valid
Rejected(arg, valid) ==
    /\ arg.present
    /\ \/ arg.v.type # "str"
       \/ Len(arg.v.chars) > 0 /\ ~(Tokens(arg.v.chars) \subseteq valid)

ParsingFails ==
    \/ Rejected(request.fields, wrapped.fields_recursive)
    \/ Rejected(request.embedd, wrapped.nested_recursive)

\* C8: the events of an invocation occur in the order handler call, selection parsing,
\* plan building, marshalling; when the parsing of either selection parameter fails the
\* error leaves the wrapper, neither marshall_dict nor marshal runs and no output mapping
\* is returned.
C8_ParseFailureAborts ==
    /\ Len(events) <= Len(EventOrder)
    /\ events = SubSeq(EventOrder, 1, Len(events))
    /\ (wrap_pc = "returned") => (events = EventOrder /\ returned.raised = None)
    /\ (ParsingFails /\ Len(events) >= 2) =>
          /\ events = <<"handler", "parse">>
          /\ wrap_pc = "raised"
          /\ returned.raised = "BadRequest"

\* fields=a.a, no such path: the handler has run, the parse has failed, nothing else ran
C8_Witness ==
    /\ wrap_pc = "raised"
    /\ request.fields = Present(Str(<<"a", ".", "a">>))
    /\ request.embedd = Absent
    /\ events = <<"handler", "parse">>
    /\ resp.raised = None
    /\ returned.raised = "BadRequest"

-----------------------------------------------------------------------------
(* The fieldsets the plan model is run on *)

\* an instance of DefaultMeta with the two defaults overridden
MetaOf(df, de) ==
    [default_fields |-> df, default_embedd |-> de,
     fields_kw |-> "fields", embedd_kw |-> "embedd"]

Declare(fields, meta) == [fields |-> fields, meta |-> meta]

LeafFields == (N("id") :> Raw("Integer")) @@ (N("email") :> Raw("String"))

LeafMetas ==
    {MetaOf(NoneSet, NoneSet), MetaOf(SomeSet({}), NoneSet),
     MetaOf(SomeSet({N("email")}), NoneSet)}

Leaves == {FieldsetBase(LeafFields, m) : m \in LeafMetas}

PlainLeaf == FieldsetBase(LeafFields, MetaOf(NoneSet, NoneSet))

OwnerFields(l) ==
    {OptionalNestedField(l, "id", None, None, FALSE, None),
     OptionalNestedField(l, None, None, None, FALSE, None),
     OptionalNestedField(l, "id", "anonymous", "owner_obj", TRUE, "String"),
     List(OptionalNestedField(l, "id", None, None, FALSE, None))}

MidMetas ==
    {MetaOf(NoneSet, NoneSet), MetaOf(NoneSet, SomeSet({})),
     MetaOf(SomeSet({N("name"), Dotted(N("owner"), N("email"))}), SomeSet({N("owner")}))}

MidFields(o) ==
    (N("id") :> Raw("Integer")) @@ (N("name") :> Raw("String")) @@ (N("owner") :> o)

MidDeclared ==
    {Declare(MidFields(o), m) : o \in UNION {OwnerFields(l) : l \in Leaves}, m \in MidMetas}

\* the mid-level instances that the top level nests
NestedMids ==
    {FieldsetBase(MidFields(o), m) :
        o \in OwnerFields(PlainLeaf) \cup {OptionalNestedField(l, "id", None, None, FALSE, None) : l \in Leaves},
        m \in MidMetas}

PostsFields(m) ==
    {OptionalNestedField(m, "id", None, None, FALSE, None),
     List(OptionalNestedField(m, "id", None, "thread_posts", FALSE, None))}

TopFields(p) ==
    (N("id") :> Raw("Integer")) @@ (N("tags") :> List(Raw("String")))
    @@ (N("owner") :> OptionalNestedField(PlainLeaf, "id", None, None, FALSE, None))
    @@ (N("posts") :> p)

TopDeclared ==
    {Declare(TopFields(p), m) :
        p \in UNION {PostsFields(mid) : mid \in NestedMids},
        m \in {MetaOf(NoneSet, NoneSet), MetaOf(NoneSet, SomeSet({N("owner")}))}}

Declared == {Declare(LeafFields, m) : m \in LeafMetas} \cup MidDeclared \cup TopDeclared

\* the selections a caller hands to marshall_dict: None, or a set of at most MaxSel paths
Selections(paths) ==
    {NoneSet} \cup {SomeSet(s) : s \in {t \in SUBSET paths : Cardinality(t) <= MaxSel}}

-----------------------------------------------------------------------------
(* The plan model: construct a fieldset, then build one plan *)

InitPlan ==
    /\ WrapIdle
    /\ RaceIdle
    /\ ClassIdle
    /\ ParserIdle
    /\ MemberIdle
    /\ plan_pc = "new"
    /\ fieldset = PyNone
    /\ selected_fields = NoneSet
    /\ selected_embed = NoneSet
    /\ result_dict = Returned(<< >>)

\* Fieldset.__init__ -> FieldsetBase.__init__
Construct ==
    /\ plan_pc = "new"
    /\ \E d \in Declared : fieldset' = FieldsetBase(d.fields, d.meta)
    /\ plan_pc' = "built"
    /\ UNCHANGED <<selected_fields, selected_embed, result_dict>>
    /\ UNCHANGED not_plan

\* Fieldset.marshall_dict(selected_fields, selected_embed)
MarshallDict ==
    /\ plan_pc = "built"
    /\ \E sf \in Selections(all_field_names(fieldset)),
          se \in Selections(nested_field_names(fieldset) \cup {N("id")}) :
            /\ selected_fields' = sf
            /\ selected_embed' = se
            /\ result_dict' = marshall_dict(fieldset, sf, se)
    /\ plan_pc' = "planned"
    /\ UNCHANGED fieldset
    /\ UNCHANGED not_plan

NextPlan == Construct \/ MarshallDict

SpecPlan == InitPlan /\ [][NextPlan]_vars

-----------------------------------------------------------------------------
(* Properties of the plan model *)

\* a nested declaration in the claims' words: an OptionalNestedField or a List of one
IsNestable(f) ==
    \/ f.kind = "OptionalNestedField"
    \/ (f.kind = "List" /\ f.container.kind = "OptionalNestedField")

NestedInstance(f) == IF f.kind = "List" THEN f.container.nested ELSE f.nested

\* the selection in force: the argument, or the default when it is None or empty
InForce(arg, dflt) == IF arg.isnone \/ arg.elems = {} THEN dflt ELSE arg.elems

\* {p : "n.p" \in S}
Below(n, S) ==
    {p \in {SubSeq(q, i, Len(q)) : <<q, i>> \in
                {pr \in S \X (1..8) : pr[2] <= Len(pr[1])}} : Dotted(n, p) \in S}

\* fields {id, name, owner}, owner an OptionalNestedField over a fieldset {id, email}
IsBobSchema(fs) ==
    /\ DOMAIN fs.fields = {N("id"), N("name"), N("owner")}
    /\ fs.fields[N("owner")].kind = "OptionalNestedField"
    /\ DOMAIN fs.fields[N("owner")].nested.fields = {N("id"), N("email")}

\* C1: on the schema {id, name, owner}, fields={name, owner.email} and embed={owner} give
\* a plan with exactly the keys name and owner, owner a nested-object rendering whose
\* child plan has exactly the key email.
C1_DottedPathEmbedsParent ==
    (/\ plan_pc = "planned"
     /\ IsBobSchema(fieldset)
     /\ selected_fields = SomeSet({N("name"), Dotted(N("owner"), N("email"))})
     /\ selected_embed = SomeSet({N("owner")}))
    => /\ result_dict.raised = None
       /\ DOMAIN result_dict.value = {N("name"), N("owner")}
       /\ result_dict.value[N("owner")].kind = "Nested"
       /\ DOMAIN result_dict.value[N("owner")].nested = {N("email")}

\* the case of C2: the schema of C1 with plain key id and no Meta defaults,
\* fields={owner} and an empty (or absent) embed selection
C2_Case ==
    /\ plan_pc = "planned"
    /\ IsBobSchema(fieldset)
    /\ fieldset.fields[N("owner")].plain_key = "id"
    /\ fieldset.meta.default_fields.isnone
    /\ fieldset.meta.default_embedd.isnone
    /\ selected_fields = SomeSet({N("owner")})
    /\ selected_embed \in {NoneSet, SomeSet({})}

\* C2 as stated: in that case owner is the reference-key rendering, the
\* ObjectMemberField that extracts owner.id.
C2_EmptyEmbedGivesKey ==
    C2_Case =>
        /\ result_dict.raised = None
        /\ result_dict.value[N("owner")].kind = "ObjectMemberField"
        /\ result_dict.value[N("owner")].member = "id"

\* C2 amended: in that case the empty embed selection is replaced by the default embed
\* set {owner}, so owner is the nested-object rendering, its child plan the nested
\* fieldset's default fields; owner is the reference-key rendering (extracting owner.id)
\* when the embed selection is not empty and does not hold owner.
C2_EmptyEmbedGivesNested ==
    /\ C2_Case =>
        LET owner == fieldset.fields[N("owner")]
            entry == result_dict.value[N("owner")]
        IN  /\ result_dict.raised = None
            /\ DOMAIN result_dict.value = {N("owner")}
            /\ entry.kind = "Nested"
            /\ DOMAIN entry.nested = owner.nested.default_fields \cap DOMAIN owner.nested.fields
            /\ \A k \in DOMAIN entry.nested : entry.nested[k] = owner.nested.fields[k]
    /\ (/\ plan_pc = "planned"
        /\ IsBobSchema(fieldset)
        /\ fieldset.fields[N("owner")].plain_key = "id"
        /\ selected_fields = SomeSet({N("owner")})
        /\ ~selected_embed.isnone
        /\ selected_embed.elems # {}
        /\ N("owner") \notin selected_embed.elems)
       => LET owner == fieldset.fields[N("owner")]
          IN  /\ result_dict.raised = None
              /\ result_dict.value[N("owner")] =
                    [kind |-> "ObjectMemberField", member |-> "id", default |-> owner.default,
                     attribute |-> owner.attribute, member_field |-> owner.plain_field]

C2_Witness ==
    /\ C2_Case
    /\ selected_embed = SomeSet({})
    /\ result_dict.value[N("owner")].kind = "Nested"
    /\ DOMAIN result_dict.value[N("owner")].nested = {N("id"), N("email")}

RECURSIVE PathsClosed(_)

\* every key of fields is in all_field_names, and so is "n.p" for every nested n and
\* every p in the nested fieldset's all_field_names: here and in every nested fieldset
PathsClosed(fs) ==
    /\ DOMAIN fs.fields \subseteq all_field_names(fs)
    /\ \A n \in DOMAIN fs.fields :
          IsNestable(fs.fields[n]) =>
            /\ \A p \in all_field_names(NestedInstance(fs.fields[n])) :
                  Dotted(n, p) \in all_field_names(fs)
            /\ PathsClosed(NestedInstance(fs.fields[n]))

\* C7: all_field_names of every fieldset instance holds the keys of its fields and, for
\* every nested name n and path p of the nested fieldset, the dotted path n.p; at any depth.
C7_AllFieldNamesClosed == plan_pc # "new" => PathsClosed(fieldset)

\* a fieldset whose List field nests a fieldset that nests another one
C7_Witness ==
    /\ plan_pc = "built"
    /\ N("posts") \in DOMAIN fieldset.fields
    /\ fieldset.fields[N("posts")].kind = "List"
    /\ Dotted(N("posts"), Dotted(N("owner"), N("email"))) \in all_field_names(fieldset)
    /\ fieldset.fields[N("posts")].container.nested.fields[N("owner")].kind = "List"

\* C9: marshall_dict returns a plan whose keys are the fields in force that the fieldset
\* declares; a field that is not nested keeps its declaration; a nested field in the embed
\* set in force is a Nested (a List of Nested for a List) over the nested fieldset's plan for
\* the paths below it; a nested field not in the embed set is its key_field().
C9_PlanShape ==
    plan_pc = "planned" =>
        LET S == InForce(selected_fields, fieldset.default_fields)
            E == InForce(selected_embed, fieldset.default_embedd)
        IN  /\ result_dict.raised = None
            /\ DOMAIN result_dict.value = S \cap DOMAIN fieldset.fields
            /\ \A n \in DOMAIN result_dict.value :
                  LET f == fieldset.fields[n]
                      e == result_dict.value[n]
                      child == marshall_dict(NestedInstance(f), SomeSet(Below(n, S)),
                                             SomeSet(Below(n, E)))
                  IN  IF ~IsNestable(f) THEN e = f
                      ELSE IF n \in E
                           THEN /\ child.raised = None
                                /\ IF f.kind = "List"
                                   THEN /\ e.kind = "List"
                                        /\ e.container.kind = "Nested"
                                        /\ e.container.nested = child.value
                                   ELSE /\ e.kind = "Nested"
                                        /\ e.nested = child.value
                           ELSE /\ f.kind = "OptionalNestedField"
                                /\ e = key_field(f)

=============================================================================
